---- MODULE Spec2Model ----
(***************************************************************************)
(* Model of the schema and managed-account resource adapters of the        *)
(* Snowflake Terraform provider (pkg/resources).                           *)
(*                                                                         *)
(* One ResourceData instance is modelled: its ID, its attribute bag and    *)
(* its partial-state bookkeeping.  Every lifecycle handler is one action;  *)
(* the outcomes of the database (statement success or failure, the row     *)
(* returned by SHOW) are inputs chosen by the environment.  `trace' holds  *)
(* the effects of the last handler call in program order, `ret' what it    *)
(* returned.                                                               *)
(*                                                                         *)
(* Strings that are split or joined (IDs, names, option lists) are         *)
(* sequences of symbols; all other strings are atoms.                      *)
(***************************************************************************)
EXTENDS Integers, Sequences, FiniteSets, TLC

VARIABLES kind, id, bag, partial, partialKeys, trace, ret, row, decoded

vars == <<kind, id, bag, partial, partialKeys, trace, ret, row, decoded>>

(***************************************************************************)
(* Bounds                                                                  *)
(***************************************************************************)
MaxNameLen == 1
MaxIdLen == 3
MaxOptsLen == 4
MaxCodecLen == 5

(***************************************************************************)
(* Strings                                                                 *)
(***************************************************************************)
Pipe == <<"|">>
CommaSpace == <<",", " ">>

NameChars == {"a", "|"}
OptChars == {"TRANSIENT", "MANAGED", ",", " "}

StringsUpTo(chars, n) == UNION {[1..k -> chars] : k \in 0..n}

Names == StringsUpTo(NameChars, MaxNameLen)
IDs == StringsUpTo(NameChars, MaxIdLen)
CodecIDs == StringsUpTo(NameChars, MaxCodecLen)
\* every option list up to the bound, well-formed or not
OptionStrings == StringsUpTo(OptChars, MaxOptsLen)
\* the option lists of a schema that is plain, transient, managed, or both
ServerOptions == {<<>>, <<"TRANSIENT">>, <<"MANAGED">>,
                  <<"TRANSIENT", ",", " ", "MANAGED">>}
Comments == {"", "c"}
Days == {0, 1}

\* strings.Split(s, sep) for a non-empty separator: cut at every
\* non-overlapping occurrence of sep, left to right; a string without
\* any occurrence (the empty string included) yields one element.
RECURSIVE Split(_, _)
Split(s, sep) ==
  LET n == Len(sep)
      idxs == {i \in 1..(Len(s) - n + 1) : SubSeq(s, i, i + n - 1) = sep}
  IN IF idxs = {}
     THEN <<s>>
     ELSE LET i == CHOOSE k \in idxs : \A j \in idxs : k <= j
          IN <<SubSeq(s, 1, i - 1)>> \o Split(SubSeq(s, i + n, Len(s)), sep)

(***************************************************************************)
(* Errors                                                                  *)
(***************************************************************************)
Nil == [type |-> "nil", msg |-> "", arg |-> <<>>]
Err(type, msg, arg) == [type |-> type, msg |-> msg, arg |-> arg]

\* errors.Wrapf(err, msg, arg)
Wrapf(msg, arg) == Err("wrapped", msg, arg)

(***************************************************************************)
(* ResourceData                                                            *)
(***************************************************************************)
SchemaAttrs == {"name", "database", "comment", "is_transient", "is_managed",
                "data_retention_days"}
UpdatableAttrs == {"comment", "is_managed", "data_retention_days"}

\* a ResourceData handed to a handler: partial mode off, nothing traced
Data(zeroRow) ==
  [id |-> id, bag |-> bag, partial |-> FALSE, partialKeys |-> {},
   trace |-> <<>>, err |-> Nil, row |-> zeroRow, exists |-> FALSE]

Event(ev, verb, db, name, out) ==
  [ev |-> ev, verb |-> verb, db |-> db, name |-> name, out |-> out]

SetId(d, v) ==
  [d EXCEPT !.id = v, !.trace = Append(@, Event("SetId", "", <<>>, v, "ok"))]

SetPartial(d, k) ==
  [d EXCEPT !.partialKeys = @ \cup {k},
            !.trace = Append(@, Event("SetPartial", k, <<>>, <<>>, "ok"))]

\* DBExec(db, q): run one statement; ok is the database's answer
DBExec(d, verb, db, name, ok) ==
  [d EXCEPT !.trace = Append(@, Event("Exec", verb, db, name,
                                      IF ok THEN "ok" ELSE "error")),
            !.err = IF ok THEN Nil ELSE Err("db", "", <<>>)]

(***************************************************************************)
(* ID codec                                                                *)
(***************************************************************************)
\* fmt.Sprintf("%v|%v", database, name)
EncodeSchemaID(database, name) == database \o Pipe \o name

\* splitSchemaID rejecting only IDs with fewer than two components
splitSchemaID_AtLeastTwo(v) ==
  LET arr == Split(v, Pipe)
  IN IF Len(arr) < 2
     THEN [db |-> <<>>, schema |-> <<>>, err |-> Err("invalid", "ID is invalid", v)]
     ELSE [db |-> arr[1], schema |-> arr[2], err |-> Nil]

splitSchemaID(v) ==
  LET arr == Split(v, Pipe)
  IN IF Len(arr) # 2
     THEN [db |-> <<>>, schema |-> <<>>, err |-> Err("invalid", "ID is invalid", v)]
     ELSE [db |-> arr[1], schema |-> arr[2], err |-> Nil]

(***************************************************************************)
(* Schema resource                                                         *)
(***************************************************************************)
ZeroSchemaRow == [name |-> <<>>, database_name |-> <<>>, comment |-> "",
                  options |-> <<>>, retention_time |-> 0]

\* the rows SHOW SCHEMAS can return for the schema an ID addresses
SchemaRows(v, opts, comments, days) ==
  LET s == splitSchemaID(v)
  IN [name : {s.schema}, database_name : {s.db}, comment : comments,
      options : opts, retention_time : days]

\* the loop over strings.Split(opts, ", ")
RECURSIVE SetOptions(_, _, _)
SetOptions(b, arr, i) ==
  IF i > Len(arr) THEN b
  ELSE LET opt == arr[i]
           b1 == IF opt = <<"TRANSIENT">> THEN [b EXCEPT !.is_transient = TRUE]
                 ELSE IF opt = <<"MANAGED">> THEN [b EXCEPT !.is_managed = TRUE]
                 ELSE b
       IN SetOptions(b1, arr, i + 1)

\* ReadSchema without the reset of the two option attributes
ReadSchema_NoReset(d, res) ==
  LET s == splitSchemaID(d.id)
  IN IF s.err # Nil THEN [d EXCEPT !.err = s.err]
     ELSE
       LET d1 == [d EXCEPT !.trace = Append(@, Event("QueryRow", "SHOW SCHEMA",
                                     s.db, s.schema,
                                     IF res.ok THEN "row" ELSE "error"))]
       IN IF ~res.ok THEN [d1 EXCEPT !.err = Err("scan", "", <<>>)]
          ELSE
            LET r == res.row
                b1 == [d1.bag EXCEPT !.name = r.name,
                                     !.database = r.database_name,
                                     !.comment = r.comment,
                                     !.data_retention_days = r.retention_time]
                b3 == IF r.options # <<>>
                      THEN SetOptions(b1, Split(r.options, CommaSpace), 1)
                      ELSE b1
            IN [d1 EXCEPT !.bag = b3, !.row = r, !.err = Nil]

\* res = [ok, row]: the outcome of QueryRow(...).Scan(...)
ReadSchema(d, res) ==
  LET s == splitSchemaID(d.id)
  IN IF s.err # Nil THEN [d EXCEPT !.err = s.err]
     ELSE
       LET d1 == [d EXCEPT !.trace = Append(@, Event("QueryRow", "SHOW SCHEMA",
                                     s.db, s.schema,
                                     IF res.ok THEN "row" ELSE "error"))]
       IN IF ~res.ok THEN [d1 EXCEPT !.err = Err("scan", "", <<>>)]
          ELSE
            LET r == res.row
                b1 == [d1.bag EXCEPT !.name = r.name,
                                     !.database = r.database_name,
                                     !.comment = r.comment,
                                     !.data_retention_days = r.retention_time]
                b2 == [b1 EXCEPT !.is_transient = FALSE, !.is_managed = FALSE]
                b3 == IF r.options # <<>>
                      THEN SetOptions(b2, Split(r.options, CommaSpace), 1)
                      ELSE b2
            IN [d1 EXCEPT !.bag = b3, !.row = r, !.err = Nil]

\* CreateSchema storing the ID before the CREATE is executed
CreateSchema_IdFirst(d, ok, res) ==
  LET name == d.bag.name
      database == d.bag.database
      d0 == SetId(d, EncodeSchemaID(database, name))
      d1 == DBExec(d0, "CREATE SCHEMA", database, name, ok)
  IN IF d1.err # Nil
     THEN [d1 EXCEPT !.err = Wrapf("error creating schema", name)]
     ELSE ReadSchema(d1, res)

CreateSchema(d, ok, res) ==
  LET name == d.bag.name
      database == d.bag.database
      d1 == DBExec(d, "CREATE SCHEMA", database, name, ok)
  IN IF d1.err # Nil
     THEN [d1 EXCEPT !.err = Wrapf("error creating schema", name)]
     ELSE ReadSchema(SetId(d1, EncodeSchemaID(database, name)), res)

\* UpdateSchema going on after a failed ALTER of is_managed
UpdateSchema_NoReturn(d, changed, execOK, res) ==
  LET d0 == [d EXCEPT !.partial = TRUE]
      s == splitSchemaID(d.id)
  IN IF s.err # Nil THEN [d0 EXCEPT !.err = s.err]
     ELSE
       LET d1 == IF "comment" \in changed
                 THEN LET e == DBExec(d0, "ALTER COMMENT", s.db, s.schema,
                                      execOK["comment"])
                      IN IF e.err # Nil
                         THEN [e EXCEPT !.err =
                                 Wrapf("error updating schema comment on", d.id)]
                         ELSE SetPartial(e, "comment")
                 ELSE d0
       IN IF d1.err # Nil THEN d1
          ELSE
            LET managed == ~d1.bag.is_managed
                d2 == IF "is_managed" \in changed
                      THEN LET e == DBExec(d1,
                                      IF managed THEN "ALTER MANAGE"
                                                 ELSE "ALTER UNMANAGE",
                                      s.db, s.schema, execOK["is_managed"])
                           IN IF e.err # Nil
                              THEN [e EXCEPT !.err =
                                      Wrapf("error changing management state on", d.id)]
                              ELSE SetPartial(e, "is_managed")
                      ELSE d1
                d3 == [d2 EXCEPT !.partial = FALSE]
                d4 == IF "data_retention_days" \in changed
                      THEN LET e == DBExec(d3, "ALTER RETENTION", s.db,
                                      s.schema, execOK["data_retention_days"])
                           IN IF e.err # Nil
                              THEN [e EXCEPT !.err =
                                      Wrapf("error updating data retention days on", d.id)]
                              ELSE e
                      ELSE d3
            IN IF d4.err # Nil THEN d4 ELSE ReadSchema(d4, res)

\* changed: the attributes HasChange reports; execOK: the database's answer
\* to the ALTER of each attribute.  The new value of a changed boolean is
\* the negation of the value the bag holds.
UpdateSchema(d, changed, execOK, res) ==
  LET d0 == [d EXCEPT !.partial = TRUE]
      s == splitSchemaID(d.id)
  IN IF s.err # Nil THEN [d0 EXCEPT !.err = s.err]
     ELSE
       LET d1 == IF "comment" \in changed
                 THEN LET e == DBExec(d0, "ALTER COMMENT", s.db, s.schema,
                                      execOK["comment"])
                      IN IF e.err # Nil
                         THEN [e EXCEPT !.err =
                                 Wrapf("error updating schema comment on", d.id)]
                         ELSE SetPartial(e, "comment")
                 ELSE d0
       IN IF d1.err # Nil THEN d1
          ELSE
            LET managed == ~d1.bag.is_managed
                d2 == IF "is_managed" \in changed
                      THEN LET e == DBExec(d1,
                                      IF managed THEN "ALTER MANAGE"
                                                 ELSE "ALTER UNMANAGE",
                                      s.db, s.schema, execOK["is_managed"])
                           IN IF e.err # Nil
                              THEN [e EXCEPT !.err =
                                      Wrapf("error changing management state on", d.id)]
                              ELSE SetPartial(e, "is_managed")
                      ELSE d1
            IN IF d2.err # Nil THEN d2
               ELSE
                 LET d3 == [d2 EXCEPT !.partial = FALSE]
                     d4 == IF "data_retention_days" \in changed
                           THEN LET e == DBExec(d3, "ALTER RETENTION", s.db,
                                           s.schema, execOK["data_retention_days"])
                                IN IF e.err # Nil
                                   THEN [e EXCEPT !.err =
                                           Wrapf("error updating data retention days on", d.id)]
                                   ELSE e
                           ELSE d3
                 IN IF d4.err # Nil THEN d4 ELSE ReadSchema(d4, res)

\* DeleteSchema clearing the ID whether or not the DROP succeeded
DeleteSchema_AlwaysClear(d, ok) ==
  LET s == splitSchemaID(d.id)
  IN IF s.err # Nil THEN [d EXCEPT !.err = s.err]
     ELSE LET d1 == SetId(DBExec(d, "DROP SCHEMA", s.db, s.schema, ok), <<>>)
          IN IF d1.err # Nil
             THEN [d1 EXCEPT !.err = Wrapf("error deleting schema", d.id)]
             ELSE d1

DeleteSchema(d, ok) ==
  LET s == splitSchemaID(d.id)
  IN IF s.err # Nil THEN [d EXCEPT !.err = s.err]
     ELSE LET d1 == DBExec(d, "DROP SCHEMA", s.db, s.schema, ok)
          IN IF d1.err # Nil
             THEN [d1 EXCEPT !.err = Wrapf("error deleting schema", d.id)]
             ELSE SetId(d1, <<>>)

\* q: what db.Query and the first rows.Next() do: "error" (Query fails),
\* "empty" (no row), "rows" (at least one row), "next_error" (Query
\* succeeds, fetching the first row fails)
QueryOutcomes == {"error", "empty", "rows", "next_error"}

\* rows.Next(): true iff a row was fetched
RowsNext(q) == q = "rows"

SchemaExists(d, q) ==
  LET s == splitSchemaID(d.id)
  IN IF s.err # Nil THEN [d EXCEPT !.exists = FALSE, !.err = s.err]
     ELSE
       LET d1 == [d EXCEPT !.trace = Append(@, Event("Query", "SHOW SCHEMA",
                                                     s.db, s.schema, q))]
       IN IF q = "error"
          THEN [d1 EXCEPT !.exists = FALSE, !.err = Err("query", "", <<>>)]
          ELSE IF RowsNext(q)
               THEN [d1 EXCEPT !.exists = TRUE, !.err = Nil]
               ELSE [d1 EXCEPT !.exists = FALSE, !.err = Nil]

(***************************************************************************)
(* Managed-account resource                                                *)
(***************************************************************************)
ZeroAccountRow == [name |-> <<>>, cloud |-> "", region |-> "", locator |-> "",
                   created_on |-> "", url |-> "", is_reader |-> FALSE,
                   comment |-> ""]

\* the rows SHOW MANAGED ACCOUNTS can return for the account an ID names;
\* the locator is empty until the server has generated it
AccountRows(v) ==
  [name : {v}, cloud : {"aws"}, region : {"us"}, locator : {"", "L"},
   created_on : {"t"}, url : {"u"}, is_reader : BOOLEAN, comment : Comments]

\* ReadManagedAccount writing the comment before it looks at the account type
ReadManagedAccount_CommentFirst(d, res) ==
  LET d1 == [d EXCEPT !.trace = Append(@, Event("QueryRow", "SHOW MANAGED ACCOUNT",
                                <<>>, d.id,
                                IF res.ok THEN "row" ELSE "error"))]
  IN IF ~res.ok THEN [d1 EXCEPT !.err = Err("scan", "", <<>>)]
     ELSE
       LET r == res.row
           b1 == [d1.bag EXCEPT !.name = r.name, !.cloud = r.cloud,
                                !.region = r.region, !.locator = r.locator,
                                !.created_on = r.created_on, !.url = r.url,
                                !.comment = r.comment]
           d2 == [d1 EXCEPT !.bag = b1, !.row = r]
       IN IF r.is_reader
          THEN [d2 EXCEPT !.bag = [b1 EXCEPT !.type = "READER"], !.err = Nil]
          ELSE [d2 EXCEPT !.err = Err("account_type",
                                      "Unable to determine the account type", <<>>)]

ReadManagedAccount(d, res) ==
  LET d1 == [d EXCEPT !.trace = Append(@, Event("QueryRow", "SHOW MANAGED ACCOUNT",
                                <<>>, d.id,
                                IF res.ok THEN "row" ELSE "error"))]
  IN IF ~res.ok THEN [d1 EXCEPT !.err = Err("scan", "", <<>>)]
     ELSE
       LET r == res.row
           b1 == [d1.bag EXCEPT !.name = r.name, !.cloud = r.cloud,
                                !.region = r.region, !.locator = r.locator,
                                !.created_on = r.created_on, !.url = r.url]
           d2 == [d1 EXCEPT !.bag = b1, !.row = r]
       IN IF r.is_reader
          THEN [d2 EXCEPT !.bag = [b1 EXCEPT !.type = "READER",
                                             !.comment = r.comment],
                          !.err = Nil]
          ELSE [d2 EXCEPT !.err = Err("account_type",
                                      "Unable to determine the account type", <<>>)]

\* initialReadManagedAccount sleeping and reading again while the locator
\* is empty
initialReadManagedAccount_Poll(d, res) ==
  LET d1 == ReadManagedAccount(
              [d EXCEPT !.trace = Append(@, Event("Sleep", "", <<>>, <<>>, "ok"))],
              res)
  IN IF d1.err = Nil /\ d1.bag.locator = ""
     THEN ReadManagedAccount(
            [d1 EXCEPT !.trace = Append(@, Event("Sleep", "", <<>>, <<>>, "ok"))],
            res)
     ELSE d1

\* time.Sleep(10 * time.Second), then the read
initialReadManagedAccount(d, res) ==
  ReadManagedAccount(
    [d EXCEPT !.trace = Append(@, Event("Sleep", "", <<>>, <<>>, "ok"))], res)

\* CreateResource(..., snowflake.ManagedAccount, initialReadManagedAccount)
CreateManagedAccount(d, ok, res) ==
  LET name == d.bag.name
      d1 == DBExec(d, "CREATE MANAGED ACCOUNT", <<>>, name, ok)
  IN IF d1.err # Nil
     THEN [d1 EXCEPT !.err = Wrapf("error creating", name)]
     ELSE initialReadManagedAccount(SetId(d1, name), res)

\* DeleteResource(..., snowflake.ManagedAccount)
DeleteManagedAccount(d, ok) ==
  LET d1 == DBExec(d, "DROP MANAGED ACCOUNT", <<>>, d.id, ok)
  IN IF d1.err # Nil
     THEN [d1 EXCEPT !.err = Wrapf("error dropping", d.id)]
     ELSE SetId(d1, <<>>)

ManagedAccountExists(d, q) ==
  LET d1 == [d EXCEPT !.trace = Append(@, Event("Query", "SHOW MANAGED ACCOUNT",
                                                <<>>, d.id, q))]
  IN IF q = "error"
     THEN [d1 EXCEPT !.exists = FALSE, !.err = Err("query", "", <<>>)]
     ELSE IF RowsNext(q)
          THEN [d1 EXCEPT !.exists = TRUE, !.err = Nil]
          ELSE [d1 EXCEPT !.exists = FALSE, !.err = Nil]

(***************************************************************************)
(* The state machine                                                       *)
(***************************************************************************)
NoRet == [op |-> "none", err |-> Nil, exists |-> FALSE, changed |-> {}]

NoCodec == [step |-> "none", input |-> <<>>, db |-> <<>>, schema |-> <<>>,
            err |-> Nil, encoded |-> <<>>]

SchemaBags ==
  [name : Names, database : Names, comment : Comments,
   is_transient : BOOLEAN, is_managed : BOOLEAN, data_retention_days : Days]

ZeroSchemaBag ==
  [name |-> <<>>, database |-> <<>>, comment |-> "", is_transient |-> FALSE,
   is_managed |-> FALSE, data_retention_days |-> 0]

AccountBags ==
  [name : Names, cloud : {""}, region : {""}, locator : {""},
   created_on : {""}, url : {""}, type : {"READER"}, comment : Comments]

ZeroAccountBag ==
  [name |-> <<>>, cloud |-> "", region |-> "", locator |-> "",
   created_on |-> "", url |-> "", type |-> "", comment |-> ""]

\* A resource that is configured and not yet created.  The framework calls
\* Create (or the importer) on a resource without an ID and the other
\* handlers on a resource that has one.
Init ==
  /\ kind \in {"schema", "managed_account"}
  /\ id = <<>>
  /\ bag \in IF kind = "schema" THEN SchemaBags ELSE AccountBags
  /\ partial = FALSE
  /\ partialKeys = {}
  /\ trace = <<>>
  /\ ret = NoRet
  /\ row = IF kind = "schema" THEN ZeroSchemaRow ELSE ZeroAccountRow
  /\ decoded = NoCodec

\* what a handler leaves behind when it returns
Return(op, d, changed) ==
  /\ id' = d.id
  /\ bag' = d.bag
  /\ partial' = d.partial
  /\ partialKeys' = d.partialKeys
  /\ trace' = d.trace
  /\ row' = d.row
  /\ ret' = [op |-> op, err |-> d.err, exists |-> d.exists, changed |-> changed]
  /\ UNCHANGED <<kind, decoded>>

\* the outcomes of QueryRow(...).Scan(...): an error, or one of the rows.
\* No query is consulted when the handler returns before it (needed = FALSE).
ScanResults(needed, rows, zero) ==
  {[ok |-> FALSE, row |-> zero]}
    \cup (IF needed THEN {[ok |-> TRUE, row |-> r] : r \in rows} ELSE {})

\* the answers of the database to the ALTERs of one UpdateSchema call: the
\* call stops at the first failing ALTER, so at most one of them fails
ExecOutcomes(changed) ==
  {f \in [UpdatableAttrs -> BOOLEAN] :
     /\ \A a \in UpdatableAttrs : ~f[a] => a \in changed
     /\ Cardinality({a \in UpdatableAttrs : ~f[a]}) <= 1}

\* Importer: schema.ImportStatePassthrough.  The ID is whatever string the
\* user hands in.
ImportState ==
  /\ kind \in {"schema", "managed_account"}
  /\ id = <<>>
  /\ \E v \in IDs \ {<<>>} :
       Return("Import",
              SetId([Data(row) EXCEPT !.bag = IF kind = "schema"
                                               THEN ZeroSchemaBag
                                               ELSE ZeroAccountBag], v),
              {})

CreateSchemaAction ==
  /\ kind = "schema"
  /\ id = <<>>
  /\ \E ok \in BOOLEAN :
     \E res \in ScanResults(ok,
                             SchemaRows(EncodeSchemaID(bag.database, bag.name),
                                        ServerOptions, Comments, Days),
                             ZeroSchemaRow) :
       Return("CreateSchema", CreateSchema(Data(ZeroSchemaRow), ok, res), {})

ReadSchemaAction ==
  /\ kind = "schema"
  /\ id # <<>>
  /\ \E res \in ScanResults(TRUE, SchemaRows(id, ServerOptions, Comments, Days), ZeroSchemaRow) :
       Return("ReadSchema", ReadSchema(Data(ZeroSchemaRow), res), {})

UpdateSchemaAction ==
  /\ kind = "schema"
  /\ id # <<>>
  /\ \E changed \in SUBSET UpdatableAttrs :
     \E execOK \in ExecOutcomes(changed) :
     \E res \in ScanResults(\A a \in changed : execOK[a],
                             SchemaRows(id, ServerOptions, Comments, Days), ZeroSchemaRow) :
       Return("UpdateSchema",
              UpdateSchema(Data(ZeroSchemaRow), changed, execOK, res), changed)

DeleteSchemaAction ==
  /\ kind = "schema"
  /\ id # <<>>
  /\ \E ok \in BOOLEAN :
       Return("DeleteSchema", DeleteSchema(Data(ZeroSchemaRow), ok), {})

SchemaExistsAction ==
  /\ kind = "schema"
  /\ id # <<>>
  /\ \E q \in QueryOutcomes :
       Return("SchemaExists", SchemaExists(Data(ZeroSchemaRow), q), {})

CreateManagedAccountAction ==
  /\ kind = "managed_account"
  /\ id = <<>>
  /\ \E ok \in BOOLEAN :
     \E res \in ScanResults(ok, AccountRows(bag.name), ZeroAccountRow) :
       Return("CreateManagedAccount",
              CreateManagedAccount(Data(ZeroAccountRow), ok, res), {})

ReadManagedAccountAction ==
  /\ kind = "managed_account"
  /\ id # <<>>
  /\ \E res \in ScanResults(TRUE, AccountRows(id), ZeroAccountRow) :
       Return("ReadManagedAccount",
              ReadManagedAccount(Data(ZeroAccountRow), res), {})

DeleteManagedAccountAction ==
  /\ kind = "managed_account"
  /\ id # <<>>
  /\ \E ok \in BOOLEAN :
       Return("DeleteManagedAccount",
              DeleteManagedAccount(Data(ZeroAccountRow), ok), {})

ManagedAccountExistsAction ==
  /\ kind = "managed_account"
  /\ id # <<>>
  /\ \E q \in QueryOutcomes :
       Return("ManagedAccountExists",
              ManagedAccountExists(Data(ZeroAccountRow), q), {})

Next ==
  \/ ImportState
  \/ CreateSchemaAction
  \/ ReadSchemaAction
  \/ UpdateSchemaAction
  \/ DeleteSchemaAction
  \/ SchemaExistsAction
  \/ CreateManagedAccountAction
  \/ ReadManagedAccountAction
  \/ DeleteManagedAccountAction
  \/ ManagedAccountExistsAction

Spec == Init /\ [][Next]_vars

(***************************************************************************)
(* Reads of one imported schema whose option list changes on the server:   *)
(* every option list up to the bound, well-formed or not                   *)
(***************************************************************************)
InitRead ==
  /\ kind = "schema"
  /\ id = EncodeSchemaID(<<"a">>, <<"a">>)
  /\ bag = ZeroSchemaBag
  /\ partial = FALSE
  /\ partialKeys = {}
  /\ trace = <<>>
  /\ ret = NoRet
  /\ row = ZeroSchemaRow
  /\ decoded = NoCodec

ReadOptionsAction ==
  /\ kind = "schema"
  /\ \E res \in ScanResults(TRUE, SchemaRows(id, OptionStrings, {"c"}, {1}),
                             ZeroSchemaRow) :
       Return("ReadSchema", ReadSchema(Data(ZeroSchemaRow), res), {})

NextRead == ReadOptionsAction

SpecRead == InitRead /\ [][NextRead]_vars

(***************************************************************************)
(* The ID codec on every string up to the bound                            *)
(***************************************************************************)
InitCodec ==
  /\ kind = "schema"
  /\ id \in CodecIDs
  /\ bag = ZeroSchemaBag
  /\ partial = FALSE
  /\ partialKeys = {}
  /\ trace = <<>>
  /\ ret = NoRet
  /\ row = ZeroSchemaRow
  /\ decoded = NoCodec

Decode ==
  /\ decoded.step = "none"
  /\ LET s == splitSchemaID(id)
     IN decoded' = [step |-> "decoded", input |-> id, db |-> s.db,
                    schema |-> s.schema, err |-> s.err, encoded |-> <<>>]
  /\ UNCHANGED <<kind, id, bag, partial, partialKeys, trace, ret, row>>

Encode ==
  /\ decoded.step = "decoded"
  /\ decoded.err = Nil
  /\ decoded' = [decoded EXCEPT !.step = "encoded",
                                !.encoded = EncodeSchemaID(decoded.db, decoded.schema)]
  /\ UNCHANGED <<kind, id, bag, partial, partialKeys, trace, ret, row>>

NextCodec == Decode \/ Encode

SpecCodec == InitCodec /\ [][NextCodec]_vars

(***************************************************************************)
(* Properties                                                              *)
(***************************************************************************)
PipeCount(v) == Cardinality({i \in 1..Len(v) : v[i] = "|"})

\* C4: an ID with exactly one pipe (two components) decodes without error
\* and encoding the decoded components gives the ID back; an ID with no
\* pipe or with two or more pipes, the empty ID included, decodes to an
\* error that names the ID, with both components empty.
C4_CodecRoundTrip ==
  /\ decoded.step # "none" =>
       IF PipeCount(decoded.input) = 1
       THEN decoded.err = Nil
       ELSE /\ decoded.err = Err("invalid", "ID is invalid", decoded.input)
            /\ decoded.db = <<>>
            /\ decoded.schema = <<>>
  /\ decoded.step = "encoded" => decoded.encoded = decoded.input

C4_Witness ==
  /\ decoded.step = "encoded"
  /\ decoded.db = <<"a">>
  /\ decoded.schema = <<"a", "a">>

OptionElements(opts) ==
  LET arr == Split(opts, CommaSpace) IN {arr[i] : i \in 1..Len(arr)}

\* C5: after a ReadSchema that returns no error, is_transient is true iff
\* TRANSIENT is an element of the returned option list split on ", ", and
\* is_managed is true iff MANAGED is one, whatever the two attributes held
\* before the call.
C5_OptionsRederived ==
  (ret.op = "ReadSchema" /\ ret.err = Nil) =>
    /\ bag.is_transient <=> (<<"TRANSIENT">> \in OptionElements(row.options))
    /\ bag.is_managed <=> (<<"MANAGED">> \in OptionElements(row.options))

C5_Witness ==
  /\ ret.op = "ReadSchema"
  /\ ret.err = Nil
  /\ row.options = <<"MANAGED", ",", " ", "TRANSIENT">>
  /\ bag.is_transient
  /\ bag.is_managed


IsExec(e) == e.ev = "Exec"
IsQueryRow(e) == e.ev = "QueryRow"
Execs == SelectSeq(trace, IsExec)
QueryRows == SelectSeq(trace, IsQueryRow)

\* the attribute an ALTER statement changes
AttrOf(verb) ==
  CASE verb = "ALTER COMMENT" -> "comment"
    [] verb \in {"ALTER MANAGE", "ALTER UNMANAGE"} -> "is_managed"
    [] verb = "ALTER RETENTION" -> "data_retention_days"
    [] OTHER -> ""

\* what the framework records as applied when the handler returns
Recorded == IF partial THEN partialKeys ELSE SchemaAttrs

Succeeded ==
  {AttrOf(trace[i].verb) :
     i \in {j \in 1..Len(trace) : IsExec(trace[j]) /\ trace[j].out = "ok"}}

\* C1: when UpdateSchema returns the error of a failed ALTER, the changed
\* attributes recorded as applied are exactly those whose ALTER succeeded.
C1_PartialStateExact ==
  (ret.op = "UpdateSchema" /\ ret.err.type = "wrapped") =>
    Recorded \cap ret.changed = Succeeded

UpdateOrder == <<"comment", "is_managed", "data_retention_days">>

\* C2: with a well-formed ID, UpdateSchema executes the ALTERs of the
\* changed attributes in the order comment, is_managed,
\* data_retention_days, one each and none for an unchanged attribute; the
\* first failing ALTER is the last thing the call does and it returns a
\* wrapped error without a read; only when every ALTER succeeded does the
\* call end with one SHOW.
C2_OneAlterPerChange ==
  (ret.op = "UpdateSchema" /\ PipeCount(id) = 1) =>
    LET InChanged(a) == a \in ret.changed
        expected == SelectSeq(UpdateOrder, InChanged)
        n == Len(Execs)
    IN /\ n <= Len(expected)
       /\ \A i \in 1..n :
            /\ AttrOf(Execs[i].verb) = expected[i]
            /\ EncodeSchemaID(Execs[i].db, Execs[i].name) = id
            /\ i < n => Execs[i].out = "ok"
       /\ IF n > 0 /\ Execs[n].out = "error"
          THEN /\ ret.err.type = "wrapped"
               /\ trace[Len(trace)] = Execs[n]
               /\ QueryRows = <<>>
          ELSE /\ n = Len(expected)
               /\ ret.err.type # "wrapped"
               /\ Len(QueryRows) = 1
               /\ IsQueryRow(trace[Len(trace)])

C2_Witness ==
  /\ ret.op = "UpdateSchema"
  /\ ret.changed = UpdatableAttrs
  /\ Len(Execs) = 2
  /\ Execs[1].out = "ok"
  /\ Execs[2].out = "error"

\* C3: the Exists handlers return (false, no error) only when the query
\* succeeded with zero rows, (true, no error) iff there is a row, and
\* an error for a malformed ID, a failed query and a failed fetch of the
\* first row.
C3_ExistsKeepsErrors ==
  ret.op \in {"SchemaExists", "ManagedAccountExists"} =>
    /\ (ret.err = Nil /\ ~ret.exists) => (trace # <<>> /\ trace[1].out = "empty")
    /\ (ret.err = Nil /\ ret.exists) <=> (trace # <<>> /\ trace[1].out = "rows")
    /\ (trace = <<>> \/ trace[1].out \in {"error", "next_error"}) => ret.err # Nil

\* the bag a successful ReadSchema derives from a row
BagOfRow(r) ==
  [name |-> r.name, database |-> r.database_name, comment |-> r.comment,
   is_transient |-> <<"TRANSIENT">> \in OptionElements(r.options),
   is_managed |-> <<"MANAGED">> \in OptionElements(r.options),
   data_retention_days |-> r.retention_time]

\* C6: CreateSchema executes the CREATE first and once.  If it fails the
\* call returns the error wrapped with the schema name, the ID stays unset
\* and nothing else is done.  If it succeeds the ID database|name is stored
\* next and then at most one SHOW follows.  When CreateSchema returns
\* no error the ID is database|name and the bag is the one ReadSchema
\* derives from the row that SHOW returned.
C6_CreateOrder ==
  ret.op = "CreateSchema" =>
    /\ Len(trace) >= 1
    /\ trace[1].ev = "Exec" /\ trace[1].verb = "CREATE SCHEMA"
    /\ Len(Execs) = 1
    /\ trace[1].out = "error" =>
         /\ ret.err = Wrapf("error creating schema", trace[1].name)
         /\ id = <<>>
         /\ Len(trace) = 1
    /\ trace[1].out = "ok" =>
         /\ Len(trace) \in {2, 3}
         /\ trace[2] = Event("SetId", "", <<>>,
                             EncodeSchemaID(trace[1].db, trace[1].name), "ok")
         /\ id = EncodeSchemaID(trace[1].db, trace[1].name)
         /\ Len(trace) = 3 => IsQueryRow(trace[3])
    /\ ret.err = Nil =>
         /\ trace[1].out = "ok"
         /\ Len(trace) = 3
         /\ trace[3].out = "row"
         /\ bag = BagOfRow(row)

C6_Witness ==
  /\ ret.op = "CreateSchema"
  /\ ret.err = Nil
  /\ id = <<"a", "|", "a">>
  /\ bag.is_transient
  /\ bag.comment = "c"

\* C7: DeleteSchema sets the ID to the empty string iff its DROP succeeded;
\* with a malformed ID it executes nothing and leaves the ID alone, and
\* when the DROP fails it returns the wrapped error and leaves the ID alone.
C7_DeleteClearsIdIffDropped ==
  [][ret'.op = "DeleteSchema" =>
       LET dropped == trace' # <<>> /\ trace'[1].out = "ok"
       IN /\ dropped => (id' = <<>> /\ ret'.err = Nil)
          /\ ~dropped => (id' = id /\ ret'.err # Nil)
          /\ PipeCount(id) # 1 => (trace' = <<>> /\ ret'.err.type = "invalid")
          /\ (trace' # <<>> /\ trace'[1].out = "error") =>
               (ret'.err = Wrapf("error deleting schema", id) /\ Len(trace') = 1)
          /\ Len(Execs') <= 1
    ]_vars

C7_Witness ==
  /\ ret.op = "DeleteSchema"
  /\ ret.err = Nil
  /\ id = <<>>
  /\ trace[1].verb = "DROP SCHEMA"

Sleeps == {i \in 1..Len(trace) : trace[i].ev = "Sleep"}

\* C8: a call that reaches the first read of a managed account sleeps
\* exactly once, then issues exactly one SHOW as its last step, and returns
\* what that read returned, an empty locator included; every Create whose
\* CREATE succeeded reaches it; a later ReadManagedAccount issues its one
\* SHOW without sleeping.
C8_FixedDelayOnce ==
  /\ ret.op = "ReadManagedAccount" =>
       (Sleeps = {} /\ Len(trace) = 1 /\ IsQueryRow(trace[1]))
  /\ (ret.op = "CreateManagedAccount" /\ trace[1].out = "ok") => Sleeps # {}
  /\ Sleeps # {} =>
       /\ ret.op = "CreateManagedAccount"
       /\ Sleeps = {Len(trace) - 1}
       /\ Len(QueryRows) = 1
       /\ IsQueryRow(trace[Len(trace)])
       /\ ret.err = IF trace[Len(trace)].out = "error" THEN Err("scan", "", <<>>)
                    ELSE IF row.is_reader THEN Nil
                    ELSE Err("account_type",
                             "Unable to determine the account type", <<>>)

C8_Witness ==
  /\ ret.op = "CreateManagedAccount"
  /\ ret.err = Nil
  /\ Sleeps # {}
  /\ row.locator = ""
  /\ bag.locator = ""

\* C9: once CreateSchema's CREATE has succeeded, the stored ID decodes to
\* exactly the database and the schema name that were created.
C9_CreatedIdDecodes ==
  (ret.op = "CreateSchema" /\ trace[1].out = "ok") =>
    splitSchemaID(id) = [db |-> trace[1].db, schema |-> trace[1].name, err |-> Nil]

ReadOps == {"ReadSchema", "ReadManagedAccount"}

\* C10 as stated: a read that returns an error leaves the bag and the ID
\* as they were.
C10_FailedReadWritesNothing ==
  [][(ret'.op \in ReadOps /\ ret'.err # Nil) => (bag' = bag /\ id' = id)]_vars

\* C10 as amended: a read that returns an error leaves the ID as it was;
\* it leaves the bag as it was on a malformed ID and on a scan error, and on
\* the account-type error it has written name, cloud, region, locator,
\* created_on and url from the row and nothing else.
C10_FailedReadWrites ==
  [][(ret'.op \in ReadOps /\ ret'.err # Nil) =>
       /\ id' = id
       /\ ret'.err.type \in {"invalid", "scan", "account_type"}
       /\ ret'.err.type \in {"invalid", "scan"} => bag' = bag
       /\ ret'.err.type = "account_type" =>
            /\ ret'.op = "ReadManagedAccount"
            /\ ~row'.is_reader
            /\ bag' = [bag EXCEPT !.name = row'.name, !.cloud = row'.cloud,
                                  !.region = row'.region,
                                  !.locator = row'.locator,
                                  !.created_on = row'.created_on,
                                  !.url = row'.url]
    ]_vars

C10_Witness ==
  /\ ret.op = "ReadManagedAccount"
  /\ ret.err.type = "account_type"
  /\ bag.locator = "L"
  /\ bag.cloud = "aws"
  /\ bag.type = ""

====
